---- MODULE Spec2Model ----
(***************************************************************************)
(* Model of the webscraping utility (src/src/main.py): one page fetch,     *)
(* table and link extraction, and persistence of HTML, CSV and documents.  *)
(*                                                                         *)
(* Python str values are sequences of one-character strings, so that       *)
(* lower(), endswith(), split() and urljoin() are computed, not assumed.   *)
(***************************************************************************)
EXTENDS Integers, Sequences, FiniteSets, TLC

(***************************************************************************)
(* Bounds of the model.                                                    *)
(***************************************************************************)
\* the largest number of <table> and <a> elements of a document
MaxElems == 2

(***************************************************************************)
(* str helpers.                                                            *)
(***************************************************************************)
Last(s) == s[Len(s)]

\* str.lower(), one character
LowerChar(c) ==
    CASE c = "A" -> "a" [] c = "B" -> "b" [] c = "C" -> "c" [] c = "D" -> "d"
      [] c = "E" -> "e" [] c = "F" -> "f" [] c = "H" -> "h" [] c = "P" -> "p"
      [] c = "T" -> "t" [] c = "X" -> "x"
      [] OTHER -> c

\* str.lower()
lower(s) == [i \in 1..Len(s) |-> LowerChar(s[i])]

\* str.endswith(suffix)
endswith(s, suffix) ==
    /\ Len(suffix) <= Len(s)
    /\ SubSeq(s, Len(s) - Len(suffix) + 1, Len(s)) = suffix

\* str.startswith(prefix)
startswith(s, prefix) ==
    /\ Len(prefix) <= Len(s)
    /\ SubSeq(s, 1, Len(prefix)) = prefix

\* str.find for a set of single characters: the first position holding one, 0 if none
FindAny(s, cs) ==
    IF \E i \in 1..Len(s) : s[i] \in cs
    THEN CHOOSE i \in 1..Len(s) : s[i] \in cs /\ \A j \in 1..(i - 1) : s[j] \notin cs
    ELSE 0

\* str.split(sep) for a one-character separator
RECURSIVE split(_, _)
split(s, sep) ==
    LET i == FindAny(s, {sep})
    IN  IF i = 0 THEN <<s>>
        ELSE <<SubSeq(s, 1, i - 1)>> \o split(SubSeq(s, i + 1, Len(s)), sep)

\* sep.join(parts)
RECURSIVE join(_, _)
join(parts, sep) ==
    IF Len(parts) = 0 THEN <<>>
    ELSE IF Len(parts) = 1 THEN parts[1]
    ELSE parts[1] \o <<sep>> \o join(Tail(parts), sep)

(***************************************************************************)
(* urllib.parse, as used by urljoin (main.py line 11, line 175).           *)
(***************************************************************************)
Letters == {"a", "b", "c", "d", "e", "f", "g", "h", "i", "j", "k", "l", "m", "n", "o",
            "p", "q", "r", "s", "t", "u", "v", "w", "x", "y", "z",
            "A", "B", "C", "D", "E", "F", "H", "P", "T", "X"}
SchemeChars == Letters \cup {"+", "-", "."}
http == <<"h", "t", "t", "p">>
uses_relative == {<<>>, http}
uses_netloc == {<<>>, http}

\* the part of s before position i, and the part after it (all of s when i = 0)
Before(s, i) == IF i = 0 THEN s ELSE SubSeq(s, 1, i - 1)
After(s, i) == IF i = 0 THEN <<>> ELSE SubSeq(s, i + 1, Len(s))

\* urlsplit: url[:i] is a scheme when it starts with a letter and holds scheme characters
HasScheme(url) ==
    /\ FindAny(url, {":"}) > 1
    /\ url[1] \in Letters
    /\ \A j \in 1..(FindAny(url, {":"}) - 1) : url[j] \in SchemeChars
SchemeOf(url, default_scheme) ==
    IF HasScheme(url) THEN lower(Before(url, FindAny(url, {":"}))) ELSE default_scheme
AfterScheme(url) ==
    IF HasScheme(url) THEN After(url, FindAny(url, {":"})) ELSE url

\* urlsplit: if url[:2] == '//': netloc, url = _splitnetloc(url, 2)
HasNetloc(rest) == startswith(rest, <<"/", "/">>)
NetlocEnd(rest) == FindAny(SubSeq(rest, 3, Len(rest)), {"/", "?", "#"})
NetlocOf(rest) ==
    IF HasNetloc(rest) THEN Before(SubSeq(rest, 3, Len(rest)), NetlocEnd(rest)) ELSE <<>>
AfterNetloc(rest) ==
    IF ~HasNetloc(rest) THEN rest
    ELSE IF NetlocEnd(rest) = 0 THEN <<>>
    ELSE SubSeq(rest, 2 + NetlocEnd(rest), Len(rest))

\* urlsplit: url, fragment = url.split('#', 1); url, query = url.split('?', 1)
FragmentOf(rest) == After(rest, FindAny(rest, {"#"}))
QueryOf(rest) == After(Before(rest, FindAny(rest, {"#"})), FindAny(Before(rest, FindAny(rest, {"#"})), {"?"}))
PathOf(rest) == Before(Before(rest, FindAny(rest, {"#"})), FindAny(Before(rest, FindAny(rest, {"#"})), {"?"}))

UrlParts(scheme, netloc, path, query, fragment) ==
    [scheme |-> scheme, netloc |-> netloc, path |-> path,
     query |-> query, fragment |-> fragment]

\* urlsplit(url, default_scheme): scheme, netloc, path, query, fragment
urlsplit(url, default_scheme) ==
    UrlParts(SchemeOf(url, default_scheme),
             NetlocOf(AfterScheme(url)),
             PathOf(AfterNetloc(AfterScheme(url))),
             QueryOf(AfterNetloc(AfterScheme(url))),
             FragmentOf(AfterNetloc(AfterScheme(url))))

\* urlunsplit: the netloc and path part
UnsplitNetlocPath(p) ==
    IF Len(p.netloc) > 0 \/ (p.scheme \in uses_netloc /\ ~startswith(p.path, <<"/", "/">>))
    THEN <<"/", "/">> \o p.netloc
         \o (IF Len(p.path) > 0 /\ p.path[1] # "/" THEN <<"/">> ELSE <<>>)
         \o p.path
    ELSE p.path

\* urlunsplit(parts)
urlunsplit(p) ==
    (IF Len(p.scheme) > 0 THEN p.scheme \o <<":">> ELSE <<>>)
    \o UnsplitNetlocPath(p)
    \o (IF Len(p.query) > 0 THEN <<"?">> \o p.query ELSE <<>>)
    \o (IF Len(p.fragment) > 0 THEN <<"#">> \o p.fragment ELSE <<>>)

\* the interior empty segments dropped: segments[1:-1] = filter(None, segments[1:-1])
DropInteriorEmpty(segments) ==
    IF Len(segments) <= 2 THEN segments
    ELSE <<segments[1]>>
         \o SelectSeq(SubSeq(segments, 2, Len(segments) - 1), LAMBDA g : Len(g) > 0)
         \o <<Last(segments)>>

\* the loop over segments that resolves "." and ".."
RECURSIVE ResolveDots(_, _)
ResolveDots(segments, resolved) ==
    IF Len(segments) = 0 THEN resolved
    ELSE IF Head(segments) = <<".", ".">>
    THEN ResolveDots(Tail(segments),
                     IF Len(resolved) > 0
                     THEN SubSeq(resolved, 1, Len(resolved) - 1)
                     ELSE resolved)
    ELSE IF Head(segments) = <<".">>
    THEN ResolveDots(Tail(segments), resolved)
    ELSE ResolveDots(Tail(segments), Append(resolved, Head(segments)))

\* urljoin: base_parts = bpath.split('/'), without its last part unless that is empty
BaseParts(bpath) ==
    IF Len(Last(split(bpath, "/"))) # 0
    THEN SubSeq(split(bpath, "/"), 1, Len(split(bpath, "/")) - 1)
    ELSE split(bpath, "/")

\* urljoin: the segments of the joined path
JoinSegments(bpath, path) ==
    IF path[1] = "/" THEN split(path, "/")
    ELSE DropInteriorEmpty(BaseParts(bpath) \o split(path, "/"))

\* urljoin: the resolved path, '/'.join(resolved_path) or '/'
ResolvedPath(segments) ==
    IF Len(join(ResolveDots(segments, <<>>)
                \o (IF Last(segments) \in {<<".">>, <<".", ".">>} THEN <<<<>>>> ELSE <<>>),
                "/")) = 0
    THEN <<"/">>
    ELSE join(ResolveDots(segments, <<>>)
              \o (IF Last(segments) \in {<<".">>, <<".", ".">>} THEN <<<<>>>> ELSE <<>>),
              "/")

\* urljoin, once both URLs are split and share a scheme that uses relative URLs
JoinParts(b, u) ==
    IF u.scheme \in uses_netloc /\ Len(u.netloc) > 0 THEN urlunsplit(u)
    ELSE IF Len(u.path) = 0
    THEN urlunsplit(UrlParts(u.scheme,
                             IF u.scheme \in uses_netloc THEN b.netloc ELSE u.netloc,
                             b.path,
                             IF Len(u.query) = 0 THEN b.query ELSE u.query,
                             u.fragment))
    ELSE urlunsplit(UrlParts(u.scheme,
                             IF u.scheme \in uses_netloc THEN b.netloc ELSE u.netloc,
                             ResolvedPath(JoinSegments(b.path, u.path)),
                             u.query,
                             u.fragment))

\* urljoin(base, url)
urljoin(base, url) ==
    IF Len(base) = 0 THEN url
    ELSE IF Len(url) = 0 THEN base
    ELSE IF urlsplit(url, urlsplit(base, <<>>).scheme).scheme # urlsplit(base, <<>>).scheme
            \/ urlsplit(url, urlsplit(base, <<>>).scheme).scheme \notin uses_relative
    THEN url
    ELSE JoinParts(urlsplit(base, <<>>), urlsplit(url, urlsplit(base, <<>>).scheme))

(***************************************************************************)
(* Fixed strings of the program and the sample strings of the inputs.      *)
(***************************************************************************)
output_dir == "output"
scraped_content_html == <<"s", "c", "r", "a", "p", "e", "d", "_", "c", "o", "n", "t", "e", "n", "t", ".", "h", "t", "m", "l">>
table_prefix == <<"t", "a", "b", "l", "e", "_">>
csv_suffix == <<".", "c", "s", "v">>
ext_pdf == <<".", "p", "d", "f">>
ext_PDF == <<".", "P", "D", "F">>
ext_txt == <<".", "t", "x", "t">>

base_root == <<"h", "t", "t", "p", ":", "/", "/", "e">>
base_deep == <<"h", "t", "t", "p", ":", "/", "/", "e", "/", "d", "/", "i">>

href_a_pdf == <<"a", ".", "p", "d", "f">>
href_f_a_pdf == <<"/", "f", "/", "a", ".", "p", "d", "f">>
href_A_PDF == <<"A", ".", "P", "D", "F">>
href_a_pdf_query == <<"a", ".", "p", "d", "f", "?", "x">>
href_a_pdf_fragment == <<"a", ".", "p", "d", "f", "#", "t">>
href_query_a_pdf == <<"v", "?", "a", ".", "p", "d", "f">>
href_b_txt == <<"b", ".", "t", "x", "t">>
href_abs_c_pdf == <<"h", "t", "t", "p", ":", "/", "/", "o", "/", "c", ".", "p", "d", "f">>

\* one decimal digit of an f-string integer
Digit(d) ==
    CASE d = 0 -> "0" [] d = 1 -> "1" [] d = 2 -> "2" [] d = 3 -> "3" [] d = 4 -> "4"
      [] d = 5 -> "5" [] d = 6 -> "6" [] d = 7 -> "7" [] d = 8 -> "8" [] d = 9 -> "9"

\* str(n) for a natural number
RECURSIVE IntToStr(_)
IntToStr(n) == IF n < 10 THEN <<Digit(n)>> ELSE IntToStr(n \div 10) \o <<Digit(n % 10)>>

(***************************************************************************)
(* The document tree: the <table> elements and the <a> elements, each in   *)
(* document order.  A table element carries what pd.read_html makes of it, *)
(* an anchor carries its href attribute.                                   *)
(***************************************************************************)
TableConversions == {"nonempty", "empty", "ValueError"}

Anchor(kind, href) == [kind |-> kind, href |-> href]
\* an <a> with a string href, one without href, one whose href is not a str
StrAnchor(h) == Anchor("str", h)
NoHrefAnchor == Anchor("nohref", <<>>)
NonStrAnchor == Anchor("nonstr", <<>>)

\* the anchors of the pages that main fetches
MainAnchors == {StrAnchor(href_a_pdf), StrAnchor(href_f_a_pdf),
                StrAnchor(href_query_a_pdf), StrAnchor(href_b_txt)}
\* the anchors of the documents handed to extract_download_links directly
AllAnchors == MainAnchors \cup
              {StrAnchor(href_A_PDF), StrAnchor(href_a_pdf_query),
               StrAnchor(href_a_pdf_fragment), StrAnchor(href_abs_c_pdf),
               NoHrefAnchor, NonStrAnchor}

SeqsUpTo(S, n) == UNION {[1..k -> S] : k \in 0..n}

Soup(tables, anchors) == [tables |-> tables, anchors |-> anchors]
MainPages == UNION {{Soup(t, a) : t \in [1..k -> TableConversions],
                                  a \in SeqsUpTo(MainAnchors, MaxElems - k)} :
                    k \in 0..MaxElems}
NoSoup == Soup(<<>>, <<>>)

(***************************************************************************)
(* extract_tables_from_soup (lines 127-149).  A DataFrame is named by the  *)
(* document position of the <table> it came from.                          *)
(***************************************************************************)
\* extract_tables_from_soup without the test of dfs[0].empty
TableDataframes_keep_empty(idx, conv) ==
    IF conv \in {"nonempty", "empty"} THEN <<idx>> ELSE <<>>

\* lines 141-148: what one <table> adds to dataframes
TableDataframes(idx, conv) ==
    IF conv = "nonempty" THEN <<idx>> ELSE <<>>

RECURSIVE ExtractTablesFrom(_, _)
ExtractTablesFrom(tables, idx) ==
    IF idx > Len(tables) THEN <<>>
    ELSE TableDataframes(idx, tables[idx]) \o ExtractTablesFrom(tables, idx + 1)

extract_tables_from_soup(soup) == ExtractTablesFrom(soup.tables, 1)

(***************************************************************************)
(* extract_download_links (lines 152-176).  extensions = <<>> with         *)
(* given = FALSE stands for None.                                          *)
(***************************************************************************)
NoneExt == [given |-> FALSE, list |-> <<>>]
ExtList(l) == [given |-> TRUE, list |-> l]

\* lines 163-164
DefaultExtensions(extensions) ==
    IF extensions.given THEN extensions.list ELSE <<ext_pdf>>

\* line 174: any(href.lower().endswith(ext) for ext in extensions)
HrefMatches(href, exts) ==
    \E k \in 1..Len(exts) : endswith(lower(href), exts[k])

\* lines 168-175: what one anchor adds to links
AnchorLinks(a_tag, base_url, exts) ==
    IF a_tag.kind = "str" /\ HrefMatches(a_tag.href, exts)
    THEN <<urljoin(base_url, a_tag.href)>>
    ELSE <<>>

\* extract_download_links with a link left out when the same link follows later
RECURSIVE ExtractLinksDedup(_, _, _, _)
ExtractLinksDedup(anchors, i, base_url, exts) ==
    IF i > Len(anchors) THEN <<>>
    ELSE IF \E k \in DOMAIN ExtractLinksDedup(anchors, i + 1, base_url, exts) :
              <<ExtractLinksDedup(anchors, i + 1, base_url, exts)[k]>>
                  = AnchorLinks(anchors[i], base_url, exts)
    THEN ExtractLinksDedup(anchors, i + 1, base_url, exts)
    ELSE AnchorLinks(anchors[i], base_url, exts)
         \o ExtractLinksDedup(anchors, i + 1, base_url, exts)

RECURSIVE ExtractLinksFrom(_, _, _, _)
ExtractLinksFrom(anchors, i, base_url, exts) ==
    IF i > Len(anchors) THEN <<>>
    ELSE AnchorLinks(anchors[i], base_url, exts)
         \o ExtractLinksFrom(anchors, i + 1, base_url, exts)

extract_download_links(soup, base_url, extensions) ==
    ExtractLinksFrom(soup.anchors, 1, base_url, DefaultExtensions(extensions))

(***************************************************************************)
(* Outcomes of the calls into the HTTP client and the file system.         *)
(***************************************************************************)
\* requests.get + raise_for_status in scrape_website (lines 118-119):
\*   "ok"             2xx response
\*   "ConnectionError", "Timeout"   requests.get raises a RequestException
\*   "HTTPError"      raise_for_status raises on a non-success status
\*   "Exception"      something that is not a RequestException is raised
FetchOutcomes == {"ok", "ConnectionError", "Timeout", "HTTPError", "Exception"}
TransportFailures == {"ConnectionError", "Timeout"}

\* line 120: except requests.RequestException
IsRequestException(outcome) == outcome \in TransportFailures \cup {"HTTPError"}

\* scrape_website with raise_for_status outside the try: the HTTPError escapes as it is
scrape_website_result_status_unwrapped(outcome) ==
    IF outcome = "ok" THEN "soup"
    ELSE IF outcome \in TransportFailures THEN "WebScrapingError"
    ELSE outcome

\* lines 117-124: what scrape_website does for an outcome of the GET
scrape_website_result(outcome) ==
    IF outcome = "ok" THEN "soup"
    ELSE IF IsRequestException(outcome) THEN "WebScrapingError"
    ELSE outcome

\* one link of download_documents (lines 189-202):
\*   "ok"                   body streamed to the file
\*   "get_RequestException" requests.get raises a RequestException
\*   "HTTPError"            raise_for_status raises
\*   "get_Exception"        requests.get raises another Exception
\*   "open_error"           open(file_path, "wb") raises
\*   "stream_error"         iter_content or f.write raises after the open
DownloadOutcomes == {"ok", "get_RequestException", "HTTPError", "get_Exception",
                     "open_error", "stream_error"}
\* the outcomes in which line 194 opens (creates or truncates) the file
OpensFile(outcome) == outcome \in {"ok", "stream_error"}

\* df.to_csv (line 216) and the open/write of save_html_content (lines 236-237)
WriteOutcomes == {"ok", "open_error", "write_error"}

\* the content of a file: kind and the item it was produced from
Content(kind, of) == [kind |-> kind, of |-> of]

(***************************************************************************)
(* State.                                                                  *)
(***************************************************************************)
VARIABLES
    pc,              \* position in main, or in the function called directly
    args,            \* argparse.Namespace: url and the three flags
    soup,            \* the document tree returned by scrape_website
    tables,          \* main's tables
    download_links,  \* main's download_links
    idx,             \* number of loop iterations done in the running loop
    dirs,            \* directories that exist
    fs,              \* files under the output directory: name -> content
    trace,           \* calls, GETs, file writes and log records, in order
    call,            \* arguments of a function called directly
    ret              \* its return value

vars == <<pc, args, soup, tables, download_links, idx, dirs, fs, trace, call, ret>>

NoCall == [soup |-> NoSoup, base_url |-> <<>>, extensions |-> NoneExt]

Args == [url : {base_deep},
         download_tables : BOOLEAN,
         find_download_links : BOOLEAN,
         download_documents : BOOLEAN]

\* trace records
Call2(fn, a) == <<"call", fn, a>>
Call3(fn, a, b) == <<"call", fn, a, b>>
Get(url, stream, outcome) == <<"GET", url, stream, outcome>>
\* mode: "w" for open(html_path, "w"), "csv" for to_csv, "wb" for open(file_path, "wb")
Write(path, mode, outcome, of) == <<"write", path, mode, outcome, of>>
Log(level, event, n) == <<"log", level, event, n>>

EmptyFs == [n \in {} |-> Content("", 0)]
WriteFile(files, name, content) == (name :> content) @@ files

(***************************************************************************)
(* main (lines 243-281).                                                   *)
(***************************************************************************)
Init ==
    /\ pc = "main"
    /\ args \in Args
    /\ soup = NoSoup
    /\ tables = <<>>
    /\ download_links = <<>>
    /\ idx = 0
    /\ dirs = {}
    /\ fs = EmptyFs
    /\ trace = <<>>
    /\ call = NoCall
    /\ ret = <<>>

\* lines 245-254: parse_args, configure_logging, mkdir of the output directory
main_setup ==
    /\ pc = "main"
    /\ \E ok \in BOOLEAN :
         IF ok
         THEN /\ dirs' = dirs \cup {output_dir}
              /\ trace' = trace \o <<Log("INFO", "running", 0)>>
              /\ pc' = "scrape"
         ELSE /\ pc' = "crashed"
              /\ UNCHANGED <<dirs, trace>>
    /\ UNCHANGED <<args, soup, tables, download_links, idx, fs, call, ret>>

\* main with the WebScrapingError swallowed: the run goes on without a soup
main_after_scrape_swallow(result) ==
    IF result \in {"soup", "WebScrapingError"} THEN "save_html" ELSE "crashed"

\* lines 256-260: where main goes after scrape_website returned or raised
main_after_scrape(result) ==
    IF result = "soup" THEN "save_html"
    ELSE IF result = "WebScrapingError" THEN "done"
    ELSE "crashed"

\* lines 256-260 with scrape_website (lines 117-124)
main_scrape ==
    /\ pc = "scrape"
    /\ \E outcome \in FetchOutcomes, page \in MainPages :
         LET result == scrape_website_result(outcome)
         IN  /\ soup' = IF result = "soup" THEN page ELSE NoSoup
             /\ trace' = trace
                  \o <<Call2("scrape_website", args.url), Get(args.url, FALSE, outcome)>>
                  \o (IF IsRequestException(outcome)
                      THEN <<Log("ERROR", "Failed to fetch", 0)>> ELSE <<>>)
                  \o (IF result = "soup" THEN <<<<"return", "scrape_website", page>>>>
                      ELSE <<<<"raise", result, outcome>>>>)
                  \o (IF main_after_scrape(result) = "done"
                      THEN <<Log("ERROR", "Aborting", 0)>> ELSE <<>>)
             /\ pc' = main_after_scrape(result)
    /\ UNCHANGED <<args, tables, download_links, idx, dirs, fs, call, ret>>

\* save_html_content without its try: a failed write propagates into main
save_html_content_raises_uncaught(outcome) == outcome # "ok"

\* lines 235-240: the exception of the write is caught inside save_html_content
save_html_content_raises(outcome) == FALSE

\* lines 229-240: the file after open(html_path, "w") and f.write(prettified)
save_html_content_fs(files, outcome) ==
    IF outcome = "ok" THEN WriteFile(files, scraped_content_html, Content("html", 0))
    ELSE IF outcome = "write_error"
    THEN WriteFile(files, scraped_content_html, Content("partial_html", 0))
    ELSE files

\* save_html_content(soup, output_dir) (lines 222-240); after is where the caller goes on
save_html_content(s, dir, after) ==
    \E outcome \in WriteOutcomes :
       /\ dir \notin dirs => outcome = "open_error"
       /\ fs' = save_html_content_fs(fs, outcome)
       /\ trace' = trace
            \o <<Call3("save_html_content", s, dir),
                 Write(scraped_content_html, "w", outcome, 0),
                 IF outcome = "ok" THEN Log("INFO", "Saved HTML content", 0)
                 ELSE Log("ERROR", "Failed to save HTML content", 0)>>
       /\ pc' = IF save_html_content_raises(outcome) THEN "crashed" ELSE after

\* main with the HTML save made conditional on no table stage
main_save_html_unless_tables ==
    /\ pc = "save_html"
    /\ IF args.download_tables
       THEN pc' = "tables" /\ UNCHANGED <<fs, trace>>
       ELSE save_html_content(soup, output_dir, "tables")
    /\ UNCHANGED <<args, soup, tables, download_links, idx, dirs, call, ret>>

\* lines 262-263: always save the HTML content
main_save_html ==
    /\ pc = "save_html"
    /\ save_html_content(soup, output_dir, "tables")
    /\ UNCHANGED <<args, soup, tables, download_links, idx, dirs, call, ret>>

\* line 266: the table stage runs
runs_tables(a) == a.download_tables
\* line 272: the link extraction runs
runs_links(a) == a.find_download_links \/ a.download_documents
\* main downloading as soon as links were looked for
runs_download_when_found(a, links) ==
    (a.download_documents \/ a.find_download_links) /\ Len(links) > 0

\* line 280: the document download runs
runs_download(a, links) == a.download_documents /\ Len(links) > 0

\* lines 145, 147: the log record of a table that is left out
RECURSIVE TableLogs(_, _)
TableLogs(tbls, i) ==
    IF i > Len(tbls) THEN <<>>
    ELSE (IF tbls[i] = "nonempty" THEN <<>>
          ELSE IF tbls[i] = "ValueError" THEN <<Log("WARNING", "Skipping table", i)>>
          ELSE <<Log("INFO", "Table is empty", i)>>)
         \o TableLogs(tbls, i + 1)

\* lines 266-268: extract_tables_from_soup, then the call of save_tables_as_csv
main_tables ==
    /\ pc = "tables"
    /\ IF runs_tables(args)
       THEN /\ tables' = extract_tables_from_soup(soup)
            /\ trace' = trace
                 \o <<Call2("extract_tables_from_soup", soup)>>
                 \o TableLogs(soup.tables, 1)
                 \o <<Call3("save_tables_as_csv", tables', output_dir)>>
            /\ pc' = "save_csv"
       ELSE /\ pc' = "links"
            /\ UNCHANGED <<tables, trace>>
    /\ idx' = 0
    /\ UNCHANGED <<args, soup, download_links, dirs, fs, call, ret>>

\* save_tables_as_csv naming the file by the 0-based index
csv_path_zero_based(i) == table_prefix \o IntToStr(i) \o csv_suffix

\* line 214: output_path / f"table_{idx + 1}.csv", idx the 0-based enumerate index
csv_path(i) == table_prefix \o IntToStr(i + 1) \o csv_suffix

\* lines 213-219: the enumerate index after an iteration
save_tables_next(i, n, outcome) == i + 1

\* line 216: the files after df.to_csv(csv_path, index=False)
to_csv_fs(files, path, df, outcome) ==
    IF outcome = "ok" THEN WriteFile(files, path, Content("csv", df))
    ELSE IF outcome = "write_error" THEN WriteFile(files, path, Content("partial_csv", df))
    ELSE files

\* lines 213-219: one iteration of the loop of save_tables_as_csv
save_tables_as_csv_iter ==
    /\ pc = "save_csv"
    /\ idx < Len(tables)
    /\ \E outcome \in WriteOutcomes :
         /\ output_dir \notin dirs => outcome = "open_error"
         /\ fs' = to_csv_fs(fs, csv_path(idx), tables[idx + 1], outcome)
         /\ trace' = trace
              \o <<Write(csv_path(idx), "csv", outcome, idx + 1),
                   IF outcome = "ok" THEN Log("INFO", "Saved table", idx + 1)
                   ELSE Log("ERROR", "Failed to save table", idx + 1)>>
         /\ idx' = save_tables_next(idx, Len(tables), outcome)
    /\ UNCHANGED <<pc, args, soup, tables, download_links, dirs, call, ret>>

\* main going back to the table stage once the tables are saved
save_tables_as_csv_return_again ==
    /\ pc = "save_csv"
    /\ idx >= Len(tables)
    /\ pc' = "tables"
    /\ idx' = 0
    /\ UNCHANGED <<args, soup, tables, download_links, dirs, fs, trace, call, ret>>

\* the loop of save_tables_as_csv is exhausted: back in main at line 270
save_tables_as_csv_return ==
    /\ pc = "save_csv"
    /\ idx >= Len(tables)
    /\ pc' = "links"
    /\ idx' = 0
    /\ UNCHANGED <<args, soup, tables, download_links, dirs, fs, trace, call, ret>>

\* lines 276-277: one log record per link
LinkLogs(links) == [k \in 1..Len(links) |-> Log("INFO", "link", k)]

\* lines 271-277
main_links ==
    /\ pc = "links"
    /\ IF runs_links(args)
       THEN /\ download_links' = extract_download_links(soup, args.url, NoneExt)
            /\ trace' = trace
                 \o <<Call3("extract_download_links", soup, args.url)>>
                 \o (IF args.find_download_links
                     THEN <<Log("INFO", "Found download links:", 0)>>
                          \o LinkLogs(download_links')
                     ELSE <<>>)
       ELSE UNCHANGED <<download_links, trace>>
    /\ pc' = "download"
    /\ UNCHANGED <<args, soup, tables, idx, dirs, fs, call, ret>>

\* lines 280-281 and 186-187: the call of download_documents and its mkdir
main_download ==
    /\ pc = "download"
    /\ IF runs_download(args, download_links)
       THEN /\ trace' = Append(trace, Call3("download_documents", download_links, output_dir))
            /\ dirs' = dirs \cup {output_dir}
            /\ pc' = "download_loop"
       ELSE /\ pc' = "done"
            /\ UNCHANGED <<trace, dirs>>
    /\ idx' = 0
    /\ UNCHANGED <<args, soup, tables, download_links, fs, call, ret>>

\* line 190: filename = url.split("/")[-1]
filename_of(url) == Last(split(url, "/"))

\* download_documents with a failed link ending the batch
download_next_abort(i, n, outcome) == IF outcome = "ok" THEN i + 1 ELSE n

\* lines 188-202: the number of links done after an iteration
download_next(i, n, outcome) == i + 1

\* download_documents refusing to overwrite a file that is already there
download_fs_keep_existing(files, filename, i, outcome) ==
    IF filename \in DOMAIN files THEN files
    ELSE IF outcome = "ok" THEN WriteFile(files, filename, Content("doc", i))
    ELSE IF outcome = "stream_error" THEN WriteFile(files, filename, Content("partial_doc", i))
    ELSE files

\* download_documents opening the file before the GET: a failed request truncates it
download_fs_open_first(files, filename, i, outcome) ==
    IF outcome = "ok" THEN WriteFile(files, filename, Content("doc", i))
    ELSE IF Len(filename) > 0 THEN WriteFile(files, filename, Content("partial_doc", i))
    ELSE files

\* lines 194-197: the files after one link
download_fs(files, filename, i, outcome) ==
    IF outcome = "ok" THEN WriteFile(files, filename, Content("doc", i))
    ELSE IF outcome = "stream_error" THEN WriteFile(files, filename, Content("partial_doc", i))
    ELSE files

\* lines 192-193: the GET of one link, as it ends
get_outcome(outcome) ==
    IF outcome \in {"get_RequestException", "HTTPError", "get_Exception"}
    THEN outcome ELSE "ok"

\* lines 188-202: one iteration of the loop of download_documents
download_documents_iter ==
    /\ pc = "download_loop"
    /\ idx < Len(download_links)
    /\ LET url == download_links[idx + 1]
           filename == filename_of(url)
       IN  \E outcome \in DownloadOutcomes :
             \* open of the directory itself (empty filename) cannot succeed
             /\ OpensFile(outcome) => Len(filename) > 0 /\ output_dir \in dirs
             /\ fs' = download_fs(fs, filename, idx + 1, outcome)
             /\ trace' = trace
                  \o <<Get(url, TRUE, get_outcome(outcome))>>
                  \o (IF get_outcome(outcome) = "ok"
                      THEN <<Write(filename, "wb", outcome, idx + 1)>> ELSE <<>>)
                  \o <<IF outcome = "ok" THEN Log("INFO", "Downloaded", idx + 1)
                       ELSE IF outcome \in {"get_RequestException", "HTTPError"}
                       THEN Log("ERROR", "Failed to download", idx + 1)
                       ELSE Log("ERROR", "Unexpected error downloading", idx + 1)>>
             /\ idx' = download_next(idx, Len(download_links), outcome)
    /\ UNCHANGED <<pc, args, soup, tables, download_links, dirs, call, ret>>

\* the loop of download_documents is exhausted: main returns
download_documents_return ==
    /\ pc = "download_loop"
    /\ idx >= Len(download_links)
    /\ pc' = "done"
    /\ idx' = 0
    /\ UNCHANGED <<args, soup, tables, download_links, dirs, fs, trace, call, ret>>

Next ==
    \/ main_setup
    \/ main_scrape
    \/ main_save_html
    \/ main_tables
    \/ save_tables_as_csv_iter
    \/ save_tables_as_csv_return
    \/ main_links
    \/ main_download
    \/ download_documents_iter
    \/ download_documents_return

Spec == Init /\ [][Next]_vars

(***************************************************************************)
(* extract_download_links called directly, as the tests call it, with any  *)
(* base URL and any extension list.                                        *)
(***************************************************************************)
ExtensionChoices == {NoneExt, ExtList(<<ext_pdf>>), ExtList(<<ext_PDF>>),
                     ExtList(<<ext_txt>>), ExtList(<<ext_txt, ext_pdf>>)}

LinkCalls == [soup : {Soup(<<>>, a) : a \in SeqsUpTo(AllAnchors, MaxElems)},
              base_url : {base_root, base_deep},
              extensions : ExtensionChoices]

InitLinks ==
    /\ pc = "call_extract_download_links"
    /\ call \in LinkCalls
    /\ args = [url |-> base_deep, download_tables |-> FALSE,
               find_download_links |-> FALSE, download_documents |-> FALSE]
    /\ soup = NoSoup
    /\ tables = <<>>
    /\ download_links = <<>>
    /\ idx = 0
    /\ dirs = {}
    /\ fs = EmptyFs
    /\ trace = <<>>
    /\ ret = <<>>

call_extract_download_links ==
    /\ pc = "call_extract_download_links"
    /\ ret' = extract_download_links(call.soup, call.base_url, call.extensions)
    /\ pc' = "returned"
    /\ UNCHANGED <<args, soup, tables, download_links, idx, dirs, fs, trace, call>>

NextLinks == call_extract_download_links

SpecLinks == InitLinks /\ [][NextLinks]_vars

(***************************************************************************)
(* save_html_content called directly, as the tests call it, with the       *)
(* directory present or absent beforehand.                                 *)
(***************************************************************************)
SaveHtmlCalls == [soup : MainPages, base_url : {<<>>}, extensions : {NoneExt}]

InitSaveHtml ==
    /\ pc = "call_save_html_content"
    /\ call \in SaveHtmlCalls
    /\ dirs \in {{}, {output_dir}}
    /\ args = [url |-> base_deep, download_tables |-> FALSE,
               find_download_links |-> FALSE, download_documents |-> FALSE]
    /\ soup = NoSoup
    /\ tables = <<>>
    /\ download_links = <<>>
    /\ idx = 0
    /\ fs = EmptyFs
    /\ trace = <<>>
    /\ ret = <<>>

call_save_html_content ==
    /\ pc = "call_save_html_content"
    /\ save_html_content(call.soup, output_dir, "returned")
    /\ UNCHANGED <<args, soup, tables, download_links, idx, dirs, call, ret>>

NextSaveHtml == call_save_html_content

SpecSaveHtml == InitSaveHtml /\ [][NextSaveHtml]_vars

(***************************************************************************)
(* Reading the trace.                                                      *)
(***************************************************************************)
CallsOf(fn) == {i \in DOMAIN trace : trace[i][1] = "call" /\ trace[i][2] = fn}
\* the GETs of the page (stream = FALSE) and of the documents (stream = TRUE)
PageGets == SelectSeq(trace, LAMBDA e : e[1] = "GET" /\ ~e[3])
DocGets == SelectSeq(trace, LAMBDA e : e[1] = "GET" /\ e[3])
WritesOf(mode) == SelectSeq(trace, LAMBDA e : e[1] = "write" /\ e[3] = mode)
Raises == SelectSeq(trace, LAMBDA e : e[1] = "raise")

FetchFailed ==
    \E k \in DOMAIN PageGets : PageGets[k][4] \in {"ConnectionError", "Timeout", "HTTPError"}
FetchSucceeded == \E k \in DOMAIN PageGets : PageGets[k][4] = "ok"

\* the part of url after its last "/"
FinalSegment(url) ==
    LET slashes == {i \in 1..Len(url) : url[i] = "/"}
        last == IF slashes = {} THEN 0 ELSE CHOOSE i \in slashes : \A j \in slashes : j <= i
    IN  SubSeq(url, last + 1, Len(url))

(***************************************************************************)
(* C1: when the page fetch fails (transport failure or non-success status) *)
(* the run aborts whatever the flags: save_html_content,                   *)
(* save_tables_as_csv and download_documents are never called, no file is  *)
(* written, no document is requested, and main returns normally.           *)
(***************************************************************************)
C1_FetchFailureAborts ==
    FetchFailed =>
        /\ pc = "done"
        /\ CallsOf("save_html_content") = {}
        /\ CallsOf("save_tables_as_csv") = {}
        /\ CallsOf("download_documents") = {}
        /\ \A i \in DOMAIN trace : trace[i][1] # "write"
        /\ Len(DocGets) = 0
        /\ DOMAIN fs = {}

C1_Witness ==
    /\ FetchFailed
    /\ pc = "done"
    /\ args.download_tables /\ args.find_download_links /\ args.download_documents

(***************************************************************************)
(* C2: when the fetch succeeds, save_html_content is called exactly once,  *)
(* with the fetched tree and the output directory, whatever the flags: it  *)
(* is the first thing main does after the fetch, and it is not repeated.   *)
(***************************************************************************)
C2_HtmlSavedExactlyOnce ==
    FetchSucceeded =>
        IF pc = "save_html"
        THEN CallsOf("save_html_content") = {}
        ELSE /\ Cardinality(CallsOf("save_html_content")) = 1
             /\ \A i \in CallsOf("save_html_content") :
                    trace[i] = <<"call", "save_html_content", soup, output_dir>>

C2_Witness ==
    /\ FetchSucceeded
    /\ pc = "done"
    /\ args.download_tables /\ args.download_documents
    /\ Len(tables) > 0 /\ Len(download_links) > 0
    /\ Cardinality(CallsOf("save_html_content")) = 1

(***************************************************************************)
(* C3: download_documents attempts every link exactly once, in list order, *)
(* whatever fails: after k iterations the document GETs are those of the   *)
(* first k links, in order; when the call has returned, there is one GET   *)
(* per link; no failure ends the run; and a link whose download succeeds   *)
(* has, as its iteration ends, its body in the file named by the final     *)
(* "/"-separated segment of its URL.                                       *)
(***************************************************************************)
C3_EveryLinkAttemptedOnce ==
    /\ pc = "download_loop" =>
          /\ Len(DocGets) = idx
          /\ idx <= Len(download_links)
    /\ (pc = "done" /\ CallsOf("download_documents") # {}) =>
          Len(DocGets) = Len(download_links)
    /\ CallsOf("download_documents") # {} => pc \in {"download_loop", "done"}
    /\ \A k \in DOMAIN DocGets : DocGets[k][2] = download_links[k]
    /\ \A k \in DOMAIN WritesOf("wb") :
          LET w == WritesOf("wb")[k]
          IN  /\ w[2] = FinalSegment(download_links[w[5]])
              /\ (w[4] = "ok" /\ k = Len(WritesOf("wb")) /\ w[5] = idx
                  /\ pc = "download_loop")
                    => (w[2] \in DOMAIN fs /\ fs[w[2]] = Content("doc", w[5]))

\* the first of two links fails and the second is downloaded
C3_Witness ==
    /\ pc = "done"
    /\ Len(download_links) = 2
    /\ Len(DocGets) = 2
    /\ DocGets[1][4] = "get_RequestException"
    /\ DocGets[2][4] = "ok"
    /\ Len(WritesOf("wb")) = 1
    /\ WritesOf("wb")[1][4] = "ok"
    /\ FinalSegment(download_links[2]) \in DOMAIN fs

(***************************************************************************)
(* C4: extract_download_links includes an anchor with a string href if and *)
(* only if the path of the resolved absolute URL, lowercased, ends with    *)
(* one of the configured extensions, compared case-insensitively (default  *)
(* [".pdf"]), and emits the href resolved against the base URL.            *)
(***************************************************************************)
\* the configured extensions of the call, [".pdf"] when none is given
C4_Configured == IF call.extensions.given THEN call.extensions.list ELSE <<ext_pdf>>

\* the path of the resolved URL, lowercased, ends with an extension, case-insensitively
C4_PathMatches(a_tag) ==
    /\ a_tag.kind = "str"
    /\ \E k \in DOMAIN C4_Configured :
          endswith(lower(urlsplit(urljoin(call.base_url, a_tag.href), <<>>).path),
                   lower(C4_Configured[k]))

RECURSIVE C4_Expected(_)
C4_Expected(anchors) ==
    IF Len(anchors) = 0 THEN <<>>
    ELSE (IF C4_PathMatches(Head(anchors))
          THEN <<urljoin(call.base_url, Head(anchors).href)>> ELSE <<>>)
         \o C4_Expected(Tail(anchors))

C4_IncludedIffPathMatches ==
    pc = "returned" => ret = C4_Expected(call.soup.anchors)

C10_Matching ==
    {i \in DOMAIN call.soup.anchors :
        /\ call.soup.anchors[i].kind = "str"
        /\ \E k \in DOMAIN C4_Configured :
              LET h == call.soup.anchors[i].href
                  e == C4_Configured[k]
              IN  /\ Len(e) <= Len(h)
                  /\ \A n \in 1..Len(e) : LowerChar(h[Len(h) - Len(e) + n]) = e[n]}

\* the k-th smallest position of a set of positions
C10_Kth(S, k) == CHOOSE i \in S : Cardinality({j \in S : j <= i}) = k

C10_OnePerMatchingAnchor ==
    pc = "returned" =>
        /\ Len(ret) = Cardinality(C10_Matching)
        /\ \A k \in DOMAIN ret :
              ret[k] = urljoin(call.base_url, call.soup.anchors[C10_Kth(C10_Matching, k)].href)

\* the same href twice: two equal entries
C10_Witness ==
    /\ pc = "returned"
    /\ Len(call.soup.anchors) = 2
    /\ call.soup.anchors[1] = call.soup.anchors[2]
    /\ Len(ret) = 2
    /\ ret[1] = ret[2]

(***************************************************************************)
(* C6: save_tables_as_csv writes the table at 1-based position i to        *)
(* table_{i}.csv and to no other file, attempts every table exactly once   *)
(* in list order whatever write fails, and the files written are exactly   *)
(* the table_{i}.csv whose write succeeded, each holding table i.          *)
(***************************************************************************)
C6_Name(i) == table_prefix \o <<Digit(i)>> \o csv_suffix

C6_CsvFiles == {f \in DOMAIN fs : fs[f].kind = "csv"}

C6_TableIWrittenToTableICsv ==
    LET w == WritesOf("csv")
    IN  /\ \A k \in DOMAIN w : w[k][5] = k /\ w[k][2] = C6_Name(k)
        /\ pc = "save_csv" => Len(w) = idx /\ idx <= Len(tables)
        /\ (CallsOf("save_tables_as_csv") # {} /\ pc # "save_csv") =>
              /\ pc # "crashed"
              /\ Len(w) = Len(tables)
        /\ C6_CsvFiles = {C6_Name(k) : k \in {j \in DOMAIN w : w[j][4] = "ok"}}
        /\ \A k \in DOMAIN w : w[k][4] = "ok" => fs[C6_Name(k)] = Content("csv", tables[k])
        /\ \A f \in DOMAIN fs :
              fs[f].kind \in {"csv", "partial_csv"} => \E k \in DOMAIN w : f = C6_Name(k)

\* the write of the first of two tables fails and the second is written
C6_Witness ==
    /\ pc = "done"
    /\ Len(tables) = 2
    /\ Len(WritesOf("csv")) = 2
    /\ WritesOf("csv")[1][4] = "open_error"
    /\ WritesOf("csv")[2][4] = "ok"
    /\ C6_CsvFiles = {C6_Name(2)}

(***************************************************************************)
(* C7: a failed write of scraped_content.html is caught inside             *)
(* save_html_content and does not abort the run: main goes on, and every   *)
(* stage selected by the flags runs to its end as after a successful save. *)
(***************************************************************************)
C7_HtmlSaveFailed ==
    \E k \in DOMAIN WritesOf("w") : WritesOf("w")[k][4] # "ok"

C7_HtmlFailureDoesNotAbort ==
    C7_HtmlSaveFailed =>
        /\ pc # "crashed"
        /\ Raises = <<>>
        /\ pc = "done" =>
              /\ CallsOf("extract_tables_from_soup") # {} <=> args.download_tables
              /\ CallsOf("save_tables_as_csv") # {} <=> args.download_tables
              /\ args.download_tables =>
                    /\ tables = extract_tables_from_soup(soup)
                    /\ Len(WritesOf("csv")) = Len(tables)
              /\ CallsOf("extract_download_links") # {} <=>
                    (args.find_download_links \/ args.download_documents)
              /\ (args.find_download_links \/ args.download_documents) =>
                    download_links = extract_download_links(soup, args.url, NoneExt)
              /\ CallsOf("download_documents") # {} <=>
                    (args.download_documents /\ Len(download_links) > 0)
              /\ args.download_documents => Len(DocGets) = Len(download_links)

\* the HTML save fails; a table is still saved and a document still downloaded
C7_Witness ==
    /\ C7_HtmlSaveFailed
    /\ pc = "done"
    /\ args.download_tables /\ args.download_documents
    /\ \E k \in DOMAIN WritesOf("csv") : WritesOf("csv")[k][4] = "ok"
    /\ \E k \in DOMAIN WritesOf("wb") : WritesOf("wb")[k][4] = "ok"

(***************************************************************************)
(* C8: table_{i}.csv files are written only with --download-tables, and    *)
(* documents are requested and written only with --download-documents;     *)
(* with neither flag the only file is scraped_content.html, whatever       *)
(* --find-download-links is.                                               *)
(***************************************************************************)
C8_OutputsGatedByFlags ==
    /\ (Len(WritesOf("csv")) > 0 \/ CallsOf("save_tables_as_csv") # {})
          => args.download_tables
    /\ (Len(DocGets) > 0 \/ Len(WritesOf("wb")) > 0 \/ CallsOf("download_documents") # {})
          => args.download_documents
    /\ (~args.download_tables /\ ~args.download_documents) =>
          /\ DOMAIN fs \subseteq {scraped_content_html}
          /\ \A i \in DOMAIN trace :
                trace[i][1] = "write" => trace[i][2] = scraped_content_html

\* links are found with --find-download-links alone and none is requested
C8_Witness ==
    /\ pc = "done"
    /\ args.find_download_links /\ ~args.download_documents /\ ~args.download_tables
    /\ Len(download_links) > 0
    /\ Len(DocGets) = 0
    /\ DOMAIN fs = {scraped_content_html}

C11_WriteFault ==
    /\ output_dir \in dirs
    /\ \E k \in DOMAIN WritesOf("w") : WritesOf("w")[k][4] # "ok"

C11_CreatesDirAndWritesHtml ==
    (pc = "returned" /\ CallsOf("save_html_content") # {} /\ ~C11_WriteFault) =>
        /\ output_dir \in dirs
        /\ scraped_content_html \in DOMAIN fs
        /\ fs[scraped_content_html] = Content("html", 0)

(***************************************************************************)
(* C12, as claimed: the stages run in the strict order Fetcher, Parser,    *)
(* Extractor, Persister: no Persister operation (HTML save, CSV save,      *)
(* document download) starts before every Extractor operation of the run   *)
(* (table extraction, link extraction) has finished.                       *)
(***************************************************************************)
C12_Extractors == {"extract_tables_from_soup", "extract_download_links"}
C12_Persisters == {"save_html_content", "save_tables_as_csv", "download_documents"}

C12_NoExtractorAfterPersister ==
    \A i, j \in DOMAIN trace :
        (i < j /\ trace[i][1] = "call" /\ trace[j][1] = "call")
            => ~(trace[i][2] \in C12_Persisters /\ trace[j][2] \in C12_Extractors)

(***************************************************************************)
(* C12, amended: main runs its operations at most once each and never goes *)
(* back, in the order fetch and parse, HTML save, table extraction, CSV    *)
(* save, link extraction, document download.  A Persister operation starts *)
(* only after the extraction that produces its input has finished, but the *)
(* stages interleave: the HTML save precedes both extractions and the CSV  *)
(* save precedes the link extraction.                                      *)
(***************************************************************************)
C12_Calls == SelectSeq(trace, LAMBDA e : e[1] = "call")

C12_Rank(fn) ==
    CASE fn = "scrape_website" -> 1
      [] fn = "save_html_content" -> 2
      [] fn = "extract_tables_from_soup" -> 3
      [] fn = "save_tables_as_csv" -> 4
      [] fn = "extract_download_links" -> 5
      [] fn = "download_documents" -> 6

\* the position in the trace of the call of fn, 0 if there is none
C12_At(fn) == IF CallsOf(fn) = {} THEN 0 ELSE CHOOSE i \in CallsOf(fn) : TRUE

C12_OperationsInProgramOrder ==
    LET c == C12_Calls
        atScrape == C12_At("scrape_website")
        atSaveCsv == C12_At("save_tables_as_csv")
        atLinks == C12_At("extract_download_links")
        atDownload == C12_At("download_documents")
    IN  /\ \A i \in DOMAIN c :
              /\ i > 1 => C12_Rank(c[i - 1][2]) < C12_Rank(c[i][2])
              /\ i = 1 => c[i][2] = "scrape_website"
              /\ i = 2 => c[i][2] = "save_html_content"
              /\ c[i][2] = "save_tables_as_csv" => c[i - 1][2] = "extract_tables_from_soup"
              /\ c[i][2] = "download_documents" => c[i - 1][2] = "extract_download_links"
        /\ \A i \in DOMAIN trace :
              /\ (trace[i][1] = "write" /\ trace[i][3] = "csv") =>
                    /\ atSaveCsv \in 1..(i - 1)
                    /\ atLinks \in {0} \cup (i + 1)..Len(trace)
              /\ (trace[i][1] = "GET" /\ trace[i][3]) => atDownload \in 1..(i - 1)
              /\ (trace[i][1] = "GET" /\ ~trace[i][3]) => atScrape = i - 1
        /\ (pc = "done" /\ FetchSucceeded) =>
              /\ CallsOf("extract_tables_from_soup") # {} <=> args.download_tables
              /\ atLinks # 0 <=> (args.find_download_links \/ args.download_documents)

\* a run with every stage: the HTML save and the CSV save precede the link extraction
C12_Witness ==
    /\ pc = "done"
    /\ Len(C12_Calls) = 6
    /\ \E k \in DOMAIN WritesOf("csv") : WritesOf("csv")[k][4] = "ok"
    /\ C12_At("save_html_content") < C12_At("extract_tables_from_soup")
    /\ C12_At("save_tables_as_csv") < C12_At("extract_download_links")

(***************************************************************************)
(* C13: download_documents names the file of a link by the final           *)
(* "/"-separated segment of its URL and handles no collision: links that   *)
(* share that segment are written to the same file, the later one          *)
(* overwriting the earlier, so the file holds what the last link that      *)
(* opened it wrote (its body when that download succeeded), and there can  *)
(* be fewer files than successful downloads.                               *)
(***************************************************************************)
\* the document writes that opened their file
C13_Opened == SelectSeq(WritesOf("wb"), LAMBDA w : w[4] \in {"ok", "stream_error"})

C13_DocFiles == {f \in DOMAIN fs : fs[f].kind \in {"doc", "partial_doc"}}

C13_LaterLinkOverwrites ==
    LET o == C13_Opened
    IN  /\ \A k \in DOMAIN o : o[k][2] = FinalSegment(download_links[o[k][5]])
        /\ C13_DocFiles = {o[k][2] : k \in DOMAIN o}
        /\ \A k \in DOMAIN o :
              (\A n \in DOMAIN o : n > k => o[n][2] # o[k][2]) =>
                  fs[o[k][2]] = Content(IF o[k][4] = "ok" THEN "doc" ELSE "partial_doc",
                                        o[k][5])
        /\ Cardinality(C13_DocFiles)
              <= Cardinality({k \in DOMAIN o : o[k][4] = "ok"})
                 + Cardinality({k \in DOMAIN o : o[k][4] = "stream_error"})

\* two links with the same final segment, both downloaded: one file, the second body
C13_Witness ==
    /\ pc = "done"
    /\ Len(download_links) = 2
    /\ download_links[1] # download_links[2]
    /\ FinalSegment(download_links[1]) = FinalSegment(download_links[2])
    /\ Len(C13_Opened) = 2
    /\ C13_Opened[1][4] = "ok" /\ C13_Opened[2][4] = "ok"
    /\ C13_DocFiles = {FinalSegment(download_links[2])}
    /\ fs[FinalSegment(download_links[2])] = Content("doc", 2)

(***************************************************************************)
(* C14: download_documents opens (creates or truncates) the file of a link *)
(* only after the GET has returned and its status check has passed.  An    *)
(* iteration whose request raises or whose status is not a success leaves  *)
(* every file as it was, also a file of that name written by an earlier    *)
(* link; an iteration that fails while streaming leaves a partial file,    *)
(* which is not removed; nothing but an iteration of the loop changes the  *)
(* files once the download has begun.                                      *)
(***************************************************************************)
\* the step is an iteration of the download loop
C14_Iteration == pc = "download_loop" /\ Len(DocGets') = Len(DocGets) + 1

C14_IterationEffect ==
    LET g == DocGets'[Len(DocGets')]
        name == FinalSegment(g[2])
        w == WritesOf("wb")'
    IN  /\ g[2] = download_links[idx + 1]
        /\ g[4] # "ok" =>
              /\ fs' = fs
              /\ Len(w) = Len(WritesOf("wb"))
        /\ g[4] = "ok" =>
              /\ Len(w) = Len(WritesOf("wb")) + 1
              /\ w[Len(w)][2] = name
              /\ w[Len(w)][4] = "open_error" => fs' = fs
              /\ w[Len(w)][4] = "stream_error" =>
                    /\ name \in DOMAIN fs'
                    /\ fs'[name] = Content("partial_doc", idx + 1)
              /\ w[Len(w)][4] = "ok" =>
                    /\ name \in DOMAIN fs'
                    /\ fs'[name] = Content("doc", idx + 1)
              /\ \A f \in DOMAIN fs : f # name => (f \in DOMAIN fs' /\ fs'[f] = fs[f])

C14_FileOpenedOnlyAfterStatusCheck ==
    [][/\ C14_Iteration => C14_IterationEffect
       /\ (pc \in {"download", "download_loop"} /\ ~C14_Iteration) => fs' = fs]_vars

\* a link is downloaded, then a link of the same file name fails its status check:
\* the file still holds the first body
C14_Witness ==
    /\ pc = "done"
    /\ Len(DocGets) = 2
    /\ FinalSegment(DocGets[1][2]) = FinalSegment(DocGets[2][2])
    /\ DocGets[1][4] = "ok"
    /\ DocGets[2][4] = "HTTPError"
    /\ Len(WritesOf("wb")) = 1
    /\ WritesOf("wb")[1][4] = "ok"
    /\ fs[FinalSegment(DocGets[2][2])] = Content("doc", 1)

\* a download fails while streaming and the partial file is there when main returns
C14_WitnessPartial ==
    /\ pc = "done"
    /\ \E k \in DOMAIN WritesOf("wb") :
          /\ WritesOf("wb")[k][4] = "stream_error"
          /\ fs[WritesOf("wb")[k][2]].kind = "partial_doc"
====
